---- MODULE Spec2Model ----
(***************************************************************************)
(* Model of registration.py: a users table in an SQLite file, with         *)
(* create_db, is_valid_email, add_user, authenticate_user, display_users   *)
(* and the test class's tearDownClass, which deletes the store file.       *)
(*                                                                         *)
(* Usernames and passwords are strings; an email is a sequence of          *)
(* one-character strings so that the pattern match can walk over it.       *)
(***************************************************************************)
EXTENDS Integers, Sequences, FiniteSets, TLC

\* ------------------------------------------------------------------ bounds
NumUsers == 2        \* how many distinct non-empty usernames callers use
MaxLen == 6          \* longest email string given to is_valid_email alone

\* ------------------------------------------------------------------ inputs
Names == <<"u1", "u2", "u3", "u4">>
Usernames == {""} \cup {Names[i] : i \in 1..NumUsers}
Passwords == {"", "p1", "p2"}
Emails == { <<>>,
            <<"a", "@", "b", ".", "c">>,
            <<"c", "@", "d", ".", "e">>,
            <<"a", "@", "b">> }

Alphabet == {"x", "@", "."}
RECURSIVE StringsOfLen(_)
StringsOfLen(n) ==
    IF n = 0 THEN { <<>> }
    ELSE { Append(s, c) : s \in StringsOfLen(n - 1), c \in Alphabet }
Strings == UNION { StringsOfLen(n) : n \in 0..MaxLen }

\* ------------------------------------------------------------------- state
VARIABLES
    fileExists,   \* the file DB_NAME exists on disk
    tableExists,  \* the file holds a table named users
    rows,         \* the rows of users, in insertion (rowid) order
    accepted,     \* rows for which add_user returned True since the table
                  \* was created empty
    op,           \* the last call
    args,         \* its arguments
    ret,          \* what it gave its caller: a value or an exception
    accessed      \* whether the last call opened a connection to the store

vars == <<fileExists, tableExists, rows, accepted, op, args, ret, accessed>>

NoArgs == [username |-> "", email |-> <<>>, password |-> ""]
NoneRet == [kind |-> "none", b |-> FALSE, l |-> <<>>, exc |-> "none"]
BoolRet(v) == [kind |-> "bool", b |-> v, l |-> <<>>, exc |-> "none"]
ListRet(s) == [kind |-> "list", b |-> FALSE, l |-> s, exc |-> "none"]
RaiseRet(e) == [kind |-> "raise", b |-> FALSE, l |-> <<>>, exc |-> e]

\* ---------------------------------------------------------- is_valid_email
\* re.match(r"[^@]+@[^@]+\.[^@]+", email): the pattern as an automaton.
\* 0 start, 1 in local part, 2 after '@', 3 in domain, 4 after '.', 5 matched.
Delta(q, c) ==
    CASE q = 0 -> IF c # "@" THEN {1} ELSE {}
      [] q = 1 -> IF c # "@" THEN {1} ELSE {2}
      [] q = 2 -> IF c # "@" THEN {3} ELSE {}
      [] q = 3 -> IF c = "@" THEN {} ELSE IF c = "." THEN {3, 4} ELSE {3}
      [] q = 4 -> IF c # "@" THEN {5} ELSE {}
      [] OTHER -> {}

\* re.match anchors at the start only: it succeeds as soon as some prefix of
\* the string matches the whole pattern.
RECURSIVE Run(_, _, _)
Run(s, i, Q) ==
    IF 5 \in Q THEN TRUE
    ELSE IF i > Len(s) \/ Q = {} THEN FALSE
    ELSE Run(s, i + 1, UNION { Delta(q, s[i]) : q \in Q })

\* The same pattern anchored at both ends (re.fullmatch).
RECURSIVE RunFull(_, _, _)
RunFull(s, i, Q) ==
    IF i > Len(s) THEN 5 \in Q
    ELSE RunFull(s, i + 1,
                 UNION { IF q = 5 THEN (IF s[i] # "@" THEN {5} ELSE {})
                         ELSE Delta(q, s[i]) : q \in Q })

is_valid_email_fullmatch(email) == RunFull(email, 1, {0})

is_valid_email(email) == Run(email, 1, {0})

\* ------------------------------------------------- is_valid_email on its own
InitEmail ==
    /\ fileExists = FALSE
    /\ tableExists = FALSE
    /\ rows = <<>>
    /\ accepted = {}
    /\ op = "init"
    /\ args \in { [username |-> "", email |-> e, password |-> ""] : e \in Strings }
    /\ ret = NoneRet
    /\ accessed = FALSE

CheckEmail ==
    /\ op = "init"
    /\ op' = "is_valid_email"
    /\ ret' = BoolRet(is_valid_email(args.email))
    /\ UNCHANGED <<fileExists, tableExists, rows, accepted, args, accessed>>

SpecEmail == InitEmail /\ [][CheckEmail]_vars

\* ------------------------------------------------------- the SQL statements
\* Each statement is run on a connection to the file; a file that did not
\* exist is created by sqlite3.connect and holds no table.
Row(username, email, password) ==
    [username |-> username, email |-> email, password |-> password]

HasUsername(rws, username) ==
    \E i \in 1..Len(rws) : rws[i].username = username

\* CREATE TABLE without IF NOT EXISTS: an error once the table is there.
ExecCreateTableUnguarded(tbl, rws) ==
    IF tbl THEN [exc |-> "OperationalError", rows |-> rws]
    ELSE [exc |-> "none", rows |-> <<>>]

\* CREATE TABLE IF NOT EXISTS users (username TEXT PRIMARY KEY, ...)
ExecCreateTable(tbl, rws) ==
    [exc |-> "none", rows |-> IF tbl THEN rws ELSE <<>>]

\* INSERT on a table whose username column is not a key.
ExecInsertNoKey(tbl, rws, username, email, password) ==
    IF ~tbl THEN [exc |-> "OperationalError", rows |-> rws]
    ELSE [exc |-> "none", rows |-> Append(rws, Row(username, email, password))]

\* INSERT that empties the table first.
ExecInsertTruncating(tbl, rws, username, email, password) ==
    IF ~tbl THEN [exc |-> "OperationalError", rows |-> rws]
    ELSE IF HasUsername(rws, username)
    THEN [exc |-> "IntegrityError", rows |-> rws]
    ELSE [exc |-> "none", rows |-> <<Row(username, email, password)>>]

\* INSERT INTO users (username, email, password) VALUES (?, ?, ?)
ExecInsert(tbl, rws, username, email, password) ==
    IF ~tbl THEN [exc |-> "OperationalError", rows |-> rws]
    ELSE IF HasUsername(rws, username)
    THEN [exc |-> "IntegrityError", rows |-> rws]
    ELSE [exc |-> "none", rows |-> Append(rws, Row(username, email, password))]

\* SELECT * FROM users WHERE username=?
ExecSelectByUsername(tbl, rws, username, password) ==
    IF ~tbl THEN [exc |-> "OperationalError", found |-> FALSE]
    ELSE [exc |-> "none",
          found |-> \E i \in 1..Len(rws) : rws[i].username = username]

\* SELECT * FROM users WHERE username=? AND password=?, then fetchone()
ExecSelectMatch(tbl, rws, username, password) ==
    IF ~tbl THEN [exc |-> "OperationalError", found |-> FALSE]
    ELSE [exc |-> "none",
          found |-> \E i \in 1..Len(rws) :
                        /\ rws[i].username = username
                        /\ rws[i].password = password]

\* SELECT username, email FROM users LIMIT 1
ExecSelectFirst(tbl, rws) ==
    IF ~tbl THEN [exc |-> "OperationalError", l |-> <<>>]
    ELSE [exc |-> "none",
          l |-> [i \in 1..(IF Len(rws) > 1 THEN 1 ELSE Len(rws)) |->
                     <<rws[i].username, rws[i].email>>]]

\* SELECT username, email FROM users, then fetchall()
ExecSelectAll(tbl, rws) ==
    IF ~tbl THEN [exc |-> "OperationalError", l |-> <<>>]
    ELSE [exc |-> "none",
          l |-> [i \in 1..Len(rws) |-> <<rws[i].username, rws[i].email>>]]

\* --------------------------------------------------------------- operations
Init ==
    /\ fileExists = FALSE
    /\ tableExists = FALSE
    /\ rows = <<>>
    /\ accepted = {}
    /\ op = "init"
    /\ args = NoArgs
    /\ ret = NoneRet
    /\ accessed = FALSE

create_db ==
    LET r == ExecCreateTable(tableExists, rows) IN
    /\ op' = "create_db"
    /\ args' = NoArgs
    /\ accessed' = TRUE
    /\ fileExists' = TRUE
    /\ tableExists' = TRUE
    /\ rows' = r.rows
    /\ accepted' = IF tableExists THEN accepted ELSE {}
    /\ ret' = IF r.exc = "none" THEN NoneRet ELSE RaiseRet(r.exc)

\* The guard of add_user without the password test.
ValidatesNoPassword(username, email, password) ==
    ~ (username = "" \/ email = <<>> \/ ~ is_valid_email(email))

\* not (not username or not email or not password or not is_valid_email(email))
Validates(username, email, password) ==
    ~ (username = "" \/ email = <<>> \/ password = "" \/ ~ is_valid_email(email))

\* Only the first except clause of add_user.
add_user_catches_integrity_only(exc) == exc = "IntegrityError"

\* except sqlite3.IntegrityError / except Exception
add_user_catches(exc) == exc = "IntegrityError" \/ exc # "none"

add_user(username, email, password) ==
    /\ op' = "add_user"
    /\ args' = Row(username, email, password)
    /\ IF ~ Validates(username, email, password)
       THEN /\ ret' = BoolRet(FALSE)
            /\ accessed' = FALSE
            /\ UNCHANGED <<fileExists, tableExists, rows, accepted>>
       ELSE LET r == ExecInsert(tableExists, rows, username, email, password) IN
            /\ accessed' = TRUE
            /\ fileExists' = TRUE
            /\ tableExists' = tableExists
            /\ rows' = r.rows
            /\ ret' = IF r.exc = "none" THEN BoolRet(TRUE)
                      ELSE IF add_user_catches(r.exc) THEN BoolRet(FALSE)
                      ELSE RaiseRet(r.exc)
            /\ accepted' = IF r.exc = "none"
                           THEN accepted \cup {Row(username, email, password)}
                           ELSE accepted

authenticate_user(username, password) ==
    /\ op' = "authenticate_user"
    /\ args' = Row(username, <<>>, password)
    /\ IF username = "" \/ password = ""
       THEN /\ ret' = BoolRet(FALSE)
            /\ accessed' = FALSE
            /\ UNCHANGED <<fileExists, tableExists, rows, accepted>>
       ELSE LET r == ExecSelectMatch(tableExists, rows, username, password) IN
            /\ accessed' = TRUE
            /\ fileExists' = TRUE
            /\ ret' = IF r.exc = "none" THEN BoolRet(r.found) ELSE RaiseRet(r.exc)
            /\ UNCHANGED <<tableExists, rows, accepted>>

display_users ==
    LET r == ExecSelectAll(tableExists, rows) IN
    /\ op' = "display_users"
    /\ args' = NoArgs
    /\ accessed' = TRUE
    /\ fileExists' = TRUE
    /\ ret' = IF r.exc = "none"
              THEN ListRet(IF r.l # <<>> THEN r.l ELSE <<>>)
              ELSE RaiseRet(r.exc)
    /\ UNCHANGED <<tableExists, rows, accepted>>

\* os.remove(DB_NAME); an error (no such file) is caught and printed.
tearDownClass ==
    /\ op' = "tearDownClass"
    /\ args' = NoArgs
    /\ accessed' = FALSE
    /\ fileExists' = FALSE
    /\ tableExists' = FALSE
    /\ rows' = <<>>
    /\ ret' = NoneRet
    /\ UNCHANGED accepted

AddUserCall ==
    \E username \in Usernames, email \in Emails, password \in Passwords :
        add_user(username, email, password)

AuthenticateCall ==
    \E username \in Usernames, password \in Passwords :
        authenticate_user(username, password)

Next ==
    \/ create_db
    \/ AddUserCall
    \/ AuthenticateCall
    \/ display_users
    \/ tearDownClass

Spec == Init /\ [][Next]_vars

\* The four operations of the module, without the deletion of the store file.
NextCalls ==
    \/ create_db
    \/ AddUserCall
    \/ AuthenticateCall
    \/ display_users

SpecCalls == Init /\ [][NextCalls]_vars

\* ================================================================= claims
RowSet == { rows[i] : i \in 1..Len(rows) }
Pairs(l) == { l[i] : i \in 1..Len(l) }
AtPositions(s) == { i \in 1..Len(s) : s[i] = "@" }
DotPositions(s) == { i \in 1..Len(s) : s[i] = "." }
MinOf(S) == CHOOSE m \in S : \A n \in S : m <= n
MaxOf(S) == CHOOSE m \in S : \A n \in S : m >= n

\* C1: no two rows of the store share a username, and an add_user call whose
\* username already has a row returns False and leaves the rows (so that
\* row's email and password) exactly as they were.
NoDuplicateUsernames ==
    \A i, j \in 1..Len(rows) : rows[i].username = rows[j].username => i = j
DuplicateRejected ==
    (op' = "add_user" /\ HasUsername(rows, args'.username))
        => (ret' = BoolRet(FALSE) /\ rows' = rows)
C1_UsernameUnique == [] NoDuplicateUsernames /\ [][DuplicateRejected]_vars
\* A valid add_user for a username whose row has another email and password
\* was refused.
C1_Witness ==
    /\ op = "add_user" /\ ret = BoolRet(FALSE)
    /\ args.password # "" /\ is_valid_email(args.email)
    /\ \E i \in 1..Len(rows) : /\ rows[i].username = args.username
                               /\ rows[i].email # args.email
                               /\ rows[i].password # args.password

\* C2: add_user with an empty username, empty email, empty password or an
\* email failing is_valid_email returns False, opens no connection (the file
\* and table are as before) and leaves the rows unchanged; so every row has
\* three non-empty fields and an email that passes is_valid_email.
InvalidRejected ==
    (/\ op' = "add_user"
     /\ \/ args'.username = "" \/ args'.email = <<>> \/ args'.password = ""
        \/ ~ is_valid_email(args'.email))
        => /\ ret' = BoolRet(FALSE)
           /\ accessed' = FALSE
           /\ <<fileExists, tableExists, rows>>' = <<fileExists, tableExists, rows>>
RowsWellFormed ==
    \A i \in 1..Len(rows) :
        /\ rows[i].username # "" /\ rows[i].email # <<>> /\ rows[i].password # ""
        /\ is_valid_email(rows[i].email)
C2_ValidationBeforeStore == [] RowsWellFormed /\ [][InvalidRejected]_vars
\* An add_user whose only defect is the empty password was refused on a
\* store that holds rows.
C2_Witness ==
    /\ op = "add_user" /\ ret = BoolRet(FALSE) /\ ~ accessed
    /\ args.username # "" /\ is_valid_email(args.email) /\ args.password = ""
    /\ Len(rows) > 0

\* C3: on a store whose table exists, authenticate_user with two non-empty
\* arguments returns True iff some row has exactly that username and that
\* password (so a wrong password and an unknown username both give False);
\* with an empty username or password it returns False without opening a
\* connection, whatever the state of the store.
C3_AuthenticateExactMatch ==
    op = "authenticate_user" =>
        IF args.username = "" \/ args.password = ""
        THEN ret = BoolRet(FALSE) /\ ~ accessed
        ELSE tableExists =>
                ret = BoolRet(\E r \in RowSet : /\ r.username = args.username
                                                /\ r.password = args.password)
\* A wrong password for a user that has a row was refused.
C3_Witness ==
    /\ op = "authenticate_user" /\ ret = BoolRet(FALSE) /\ accessed
    /\ \E r \in RowSet : r.username = args.username /\ r.password # args.password

\* C4: on a store whose table exists, display_users returns a list whose
\* elements, as a set, are exactly the (username, email) pairs of the rows,
\* which are exactly the pairs of the add_user calls that returned True since
\* the table was created empty, one element per such call.
C4_DisplayListsAcceptedUsers ==
    (op = "display_users" /\ tableExists) =>
        /\ ret.kind = "list"
        /\ Pairs(ret.l) = { <<r.username, r.email>> : r \in RowSet }
        /\ Pairs(ret.l) = { <<r.username, r.email>> : r \in accepted }
        /\ Len(ret.l) = Cardinality(accepted)
\* display_users after exactly two users were registered.
C4_Witness ==
    /\ op = "display_users" /\ tableExists
    /\ Cardinality(accepted) = 2 /\ Len(ret.l) = 2

\* C5: display_users returns the empty list, without raising, whenever the
\* store holds no user rows, also when the store file was deleted and
\* create_db has not been called again.
C5_DisplayEmptyWhenNoRows ==
    (op = "display_users" /\ rows = <<>>) => ret = ListRet(<<>>)

\* C6: authenticate_user never raises to its caller; with no matching row,
\* and with the file or the users table absent, it returns False.
C6_AuthenticateNeverRaises ==
    op = "authenticate_user" =>
        /\ ret.kind = "bool"
        /\ (~ tableExists => ret = BoolRet(FALSE))

\* C7: add_user never raises to its caller: a username that already has a row
\* and a missing users table are both reported as False, and whenever it
\* returns False the rows are unchanged.
AddUserReturnsBool == op = "add_user" => ret.kind = "bool"
AddUserFailureKeepsRows ==
    /\ (op' = "add_user" /\ (~ tableExists \/ HasUsername(rows, args'.username)))
           => ret' = BoolRet(FALSE)
    /\ (op' = "add_user" /\ ret' # BoolRet(TRUE)) => rows' = rows
C7_AddUserNeverRaises == [] AddUserReturnsBool /\ [][AddUserFailureKeepsRows]_vars
\* A well-formed add_user on a store without the users table returned False.
C7_Witness ==
    /\ op = "add_user" /\ ret = BoolRet(FALSE) /\ accessed /\ ~ tableExists
    /\ args.username # "" /\ args.password # "" /\ is_valid_email(args.email)

\* C8: create_db raises no error whenever it is called and leaves every row
\* unchanged; a second consecutive call leaves the store (file, table, rows)
\* as the first left it.
CreateDbKeepsRows ==
    (op' = "create_db") =>
        /\ ret' = NoneRet
        /\ rows' = rows
        /\ tableExists'
        /\ (op = "create_db" =>
               <<fileExists, tableExists, rows>>' = <<fileExists, tableExists, rows>>)
C8_CreateDbIdempotent == [][CreateDbKeepsRows]_vars
\* create_db was called on a store that already holds two rows.
C8_Witness == op = "create_db" /\ ret = NoneRet /\ Len(rows) = 2

\* C9: in runs of create_db, add_user, authenticate_user and display_users,
\* rows are only added, by an add_user that returns True; a row whose add_user
\* returned True is in the store from then on, authenticate_user with its
\* username and password returns True, display_users contains its (username,
\* email), and authenticate_user and display_users leave the rows unchanged.
AcceptedStay ==
    \A r \in accepted :
        /\ r \in RowSet
        /\ (op = "authenticate_user" /\ args.username = r.username
              /\ args.password = r.password) => ret = BoolRet(TRUE)
        /\ op = "display_users" =>
              (ret.kind = "list" /\ <<r.username, r.email>> \in Pairs(ret.l))
RowsOnlyAdded ==
    /\ Len(rows') >= Len(rows)
    /\ SubSeq(rows', 1, Len(rows)) = rows
    /\ rows' # rows => (op' = "add_user" /\ ret' = BoolRet(TRUE)
                         /\ rows' = Append(rows, args'))
    /\ (op' = "add_user" /\ ret' = BoolRet(TRUE)) => args' \in accepted'
C9_RowsPersist == [] AcceptedStay /\ [][RowsOnlyAdded]_vars
\* The first registered user authenticates after a second one was added.
C9_Witness ==
    /\ op = "authenticate_user" /\ ret = BoolRet(TRUE)
    /\ Len(rows) = 2
    /\ args.username = rows[1].username /\ args.password = rows[1].password

\* C10 as stated: is_valid_email returns True exactly for the strings with a
\* single '@' that has a character before it, a final '.' with a character
\* between the '@' and it, and a character after it.
ExactForm(s) ==
    /\ Cardinality(AtPositions(s)) = 1
    /\ DotPositions(s) # {}
    /\ LET p == MinOf(AtPositions(s))
           d == MaxOf(DotPositions(s))
       IN  p > 1 /\ d > p + 1 /\ d < Len(s)
C10_ExactForm == op = "is_valid_email" => ret = BoolRet(ExactForm(args.email))

\* C10 amended: is_valid_email returns True exactly for the strings that have
\* a character before their first '@' and, in the stretch from that '@' to the
\* next '@' or the end of the string, a '.' with a character of the stretch
\* before it and one after it; what follows the stretch is not looked at.
PrefixForm(s) ==
    /\ AtPositions(s) # {}
    /\ LET p == MinOf(AtPositions(s))
           later == { i \in AtPositions(s) : i > p }
           e == IF later = {} THEN Len(s) ELSE MinOf(later) - 1
       IN  p > 1 /\ \E d \in (p + 2)..(e - 1) : s[d] = "."
C10_PrefixForm == op = "is_valid_email" => ret = BoolRet(PrefixForm(args.email))
\* An accepted string with a second '@' after the matching prefix.
C10_Witness ==
    /\ op = "is_valid_email" /\ ret = BoolRet(TRUE)
    /\ Cardinality(AtPositions(args.email)) = 2

====
